---- MODULE Spec2Model ----
(***************************************************************************)
(* Model of src/lib.rs (wildcards): cp / mv / rm over a source that is a   *)
(* file, a directory or a mask, with the closures, do_on_file, do_on_dir   *)
(* and do_on_mask.  A path is a sequence of segments, a segment a sequence *)
(* of one-character strings.  The current directory is the empty path.     *)
(***************************************************************************)
EXTENDS Integers, Sequences, FiniteSets, TLC

\* ------------------------------------------------------------------ bounds
MaxEnumErrors == 1   \* next_entry() errors the environment may inject
MaxInterfere == 1    \* concurrent replacements of the source between the two checks
MaxAppear == 1       \* entries created during a walk that the listing may still yield
MaxCalls == 2        \* top-level calls made in a row by the caller

\* ---------------------------------------------------------------- alphabet
StarCh == "*"
BadByte == "#"       \* stands for a byte sequence that is not valid UTF-8

\* ---------------------------------------------------------------- segments
SegD == <<"d">>
SegE == <<"e">>
SegTmp == <<"T">>
SegAT == <<"a", ".", "t">>
SegBT == <<"b", ".", "t">>
SegCT == <<"c", ".", "t">>
SegATB == <<"a", ".", "t", "b">>
SegAXT == <<"a", "t">>
SegBad == <<BadByte, ".", "t">>
SegX == <<"x">>
SegMaskT == <<"*", ".", "t">>
SegStar == <<"*">>

\* ------------------------------------------------------------------- paths
EmptyPath == <<>>
DirD == <<SegD>>
DirE == <<SegE>>
TempDir == <<SegTmp>>

FileNames == {SegAT, SegBT, SegCT, SegATB, SegAXT, SegBad, SegX}

Universe ==
    {DirD, DirE, TempDir}
        \cup {<<SegD, n>> : n \in FileNames}
        \cup {<<SegE, n>> : n \in FileNames}
        \cup {<<SegD, SegBT, SegAT>>}

\* Path::join with one more segment
Join(p, seg) == Append(p, seg)

\* Path::file_name: the last segment, or none for the empty path
HasFileName(p) == Len(p) > 0
FileName(p) == p[Len(p)]

\* Path::parent: the path without its last segment; none only for the empty
\* path (a one-segment relative path has the empty path as its parent)
HasParent(p) == Len(p) > 0
Parent(p) == SubSeq(p, 1, Len(p) - 1)

\* OsStr::to_str: fails on a name that is not valid UTF-8
ToStrOk(seg) == \A i \in DOMAIN seg : seg[i] # BadByte

\* str::contains("*")
ContainsStar(seg) == \E i \in DOMAIN seg : seg[i] = StarCh

\* -------------------------------------------------------------- filesystem
NoNode == [kind |-> "none", content |-> 0]
FileNode(c) == [kind |-> "file", content |-> c]
DirNode == [kind |-> "dir", content |-> 0]

Lookup(f, p) == IF p \in DOMAIN f THEN f[p] ELSE NoNode

\* Path::is_file / Path::is_dir
IsFile(f, p) == Lookup(f, p).kind = "file"
IsDir(f, p) == Lookup(f, p).kind = "dir"

\* the direct entries of directory p
Entries(f, p) ==
    {q \in DOMAIN f : /\ Len(q) = Len(p) + 1
                      /\ SubSeq(q, 1, Len(p)) = p
                      /\ f[q].kind # "none"}

\* the directory a new entry t would be created in exists (the current
\* directory always does)
ParentExists(f, t) == Len(t) = 1 \/ (Len(t) > 1 /\ IsDir(f, Parent(t)))

\* --------------------------------------------------------------- the regex
\* str::replace("*", ".*")
RECURSIVE ReplaceStar(_)
ReplaceStar(s) ==
    IF s = <<>> THEN <<>>
    ELSE IF Head(s) = StarCh THEN <<".", "*">> \o ReplaceStar(Tail(s))
    ELSE <<Head(s)>> \o ReplaceStar(Tail(s))

\* Regex::new on the replaced text: an atom followed by "*" is repeated
RECURSIVE ParseRegex(_)
ParseRegex(s) ==
    IF s = <<>> THEN <<>>
    ELSE IF Len(s) >= 2 /\ s[2] = "*"
         THEN <<[c |-> s[1], rep |-> TRUE]>> \o ParseRegex(SubSeq(s, 3, Len(s)))
         ELSE <<[c |-> s[1], rep |-> FALSE]>> \o ParseRegex(Tail(s))

\* one regex atom against one character: "." is any character but newline
AtomOk(c, ch) == IF c = "." THEN ch # "\n" ELSE c = ch

\* the regex from atom k on matches some text that starts at position i
RECURSIVE MatchFrom(_, _, _, _)
MatchFrom(r, k, str, i) ==
    IF k > Len(r) THEN TRUE
    ELSE IF r[k].rep
         THEN \/ MatchFrom(r, k + 1, str, i)
              \/ (i <= Len(str) /\ AtomOk(r[k].c, str[i]) /\ MatchFrom(r, k, str, i + 1))
         ELSE i <= Len(str) /\ AtomOk(r[k].c, str[i]) /\ MatchFrom(r, k + 1, str, i + 1)

\* Regex::is_match: an unanchored search
IsMatch(r, str) == \E i \in 1..(Len(str) + 1) : MatchFrom(r, 1, str, i)

\* the matcher do_on_mask compiles from the last segment
Compile(seg) == ParseRegex(ReplaceStar(seg))


\* ------------------------------------------------------------------ errors
Ok == [kind |-> "Ok", a |-> EmptyPath, b |-> EmptyPath]
Pending == [kind |-> "Pending", a |-> EmptyPath, b |-> EmptyPath]
UnknownFormat(p) == [kind |-> "UnknownFormat", a |-> p, b |-> EmptyPath]
OperationFailed(s, t) == [kind |-> "OperationFailed", a |-> s, b |-> t]
InvalidSource(p) == [kind |-> "InvalidSource", a |-> p, b |-> EmptyPath]
InvalidTarget(p) == [kind |-> "InvalidTarget", a |-> p, b |-> EmptyPath]
FilenameFail(p) == [kind |-> "FilenameFail", a |-> p, b |-> EmptyPath]
InvalidPath(p) == [kind |-> "InvalidPath", a |-> p, b |-> EmptyPath]
NoParent(p) == [kind |-> "NoParent", a |-> p, b |-> EmptyPath]
ReadError(p) == [kind |-> "ReadError", a |-> p, b |-> EmptyPath]

\* ---------------------------------------------------------------- closures
\* Each closure yields the error it maps a failure to (Ok on success) and
\* the filesystem afterwards.  lk is the set of paths the process may not
\* modify; trunc tells whether copying a file onto itself empties it.

\* cp's closure: std::fs::copy
CopyClosure(f, lk, s, t, trunc) ==
    IF ~IsFile(f, s) \/ IsDir(f, t) \/ ~ParentExists(f, t) \/ t \in lk
    THEN [result |-> OperationFailed(s, t), fs |-> f]
    ELSE IF s = t
         THEN [result |-> Ok,
               fs |-> IF trunc THEN [f EXCEPT ![t] = FileNode(0)] ELSE f]
         ELSE [result |-> Ok, fs |-> [f EXCEPT ![t] = FileNode(f[s].content)]]

\* mv's closure: std::fs::rename
RenameClosure(f, lk, s, t) ==
    IF ~IsFile(f, s) \/ IsDir(f, t) \/ ~ParentExists(f, t) \/ s \in lk \/ t \in lk
    THEN [result |-> OperationFailed(s, t), fs |-> f]
    ELSE IF s = t
         THEN [result |-> Ok, fs |-> f]
         ELSE [result |-> Ok, fs |-> [f EXCEPT ![t] = f[s], ![s] = NoNode]]

\* rm's closure: std::fs::remove_file, the target is ignored
RemoveClosure(f, lk, s) ==
    IF ~IsFile(f, s) \/ s \in lk
    THEN [result |-> InvalidSource(s), fs |-> f]
    ELSE [result |-> Ok, fs |-> [f EXCEPT ![s] = NoNode]]

Ops == {"cp", "mv", "rm"}

Closure(o, f, lk, s, t, trunc) ==
    IF o = "cp" THEN CopyClosure(f, lk, s, t, trunc)
    ELSE IF o = "mv" THEN RenameClosure(f, lk, s, t)
    ELSE RemoveClosure(f, lk, s)

\* -------------------------------------------------------------- do_on_file
\* do_on_file without its target.is_dir() branch
EffectiveTarget_Verbatim(f, s, t) == t

\* the target the closure is called with
EffectiveTarget(f, s, t) == IF IsDir(f, t) THEN Join(t, FileName(s)) ELSE t

\* do_on_file: the result, the filesystem afterwards and the closure
\* invocations made (at most one)
DoOnFile(o, f, lk, s, t, trunc) ==
    IF IsDir(f, t) /\ ~HasFileName(s)
    THEN [result |-> FilenameFail(s), fs |-> f, calls |-> <<>>]
    ELSE LET et == EffectiveTarget(f, s, t)
             r == Closure(o, f, lk, s, et, trunc)
         IN [result |-> r.result, fs |-> r.fs,
             calls |-> <<[src |-> s, tgt |-> et, ok |-> r.result = Ok]>>]

\* -------------------------------------------------------------- dispatcher
\* the match without its (true, true) arm
Select_NoUnknown(f, d) ==
    IF f THEN "file"
    ELSE IF d THEN "dir"
    ELSE "mask"

\* the match on (source.is_file(), source.is_dir())
Select(f, d) ==
    IF f /\ d THEN "unknown"
    ELSE IF f THEN "file"
    ELSE IF d THEN "dir"
    ELSE "mask"


\* ------------------------------------------------------------------- state
VARIABLES
    op,         \* which of cp / mv / rm the caller runs
    src,        \* the source the caller passed
    tgt,        \* the target: the caller's for cp and mv, temp_dir() for rm
    fs,         \* the filesystem: path -> node
    locked,     \* paths the process is not allowed to modify
    pc,         \* where the call is
    isf,        \* what source.is_file() returned
    isd,        \* what source.is_dir() returned
    strategy,   \* the arm the dispatcher selected
    msrc,       \* the source do_on_mask was called with
    re,         \* the compiled matcher
    mdir,       \* the directory being listed
    listing,    \* entries the reader has not yielded yet
    seen,       \* entries the reader has yielded
    calls,      \* closure invocations of this call, in order
    result,     \* what the call returned
    fs0,        \* the filesystem when the call started
    enumErrs,   \* next_entry() errors so far
    interfered, \* concurrent replacements so far
    appeared,   \* late entries so far
    callNo,     \* number of the current call
    prev        \* result and final filesystem of the previous call

vars == <<op, src, tgt, fs, locked, pc, isf, isd, strategy, msrc, re, mdir,
          listing, seen, calls, result, fs0, enumErrs, interfered, appeared,
          callNo, prev>>

\* ---------------------------------------------------------- initial states
Sources == {<<SegD, SegAT>>, <<SegD, SegBad>>, DirD, <<SegD, SegMaskT>>,
            <<SegMaskT>>, EmptyPath}

Targets == {DirE, <<SegE, SegX>>, DirD, <<SegD, SegCT>>}

ExtraNames == {SegATB, SegAXT, SegBad}

\* a layout: d always is a directory; d/a.t is a file or absent; d/b.t is a
\* file or a directory holding one file; at most one more file in d; e is
\* absent, a file, an empty directory or a directory holding a directory b.t
Layout(hasA, bIsDir, extra, eKind, eSub, tmpKind) ==
    [p \in Universe |->
        IF p = DirD THEN DirNode
        ELSE IF p = <<SegD, SegAT>> THEN (IF hasA THEN FileNode(1) ELSE NoNode)
        ELSE IF p = <<SegD, SegBT>> THEN (IF bIsDir THEN DirNode ELSE FileNode(2))
        ELSE IF p = <<SegD, SegBT, SegAT>> THEN (IF bIsDir THEN FileNode(4) ELSE NoNode)
        ELSE IF Len(p) = 2 /\ p[1] = SegD /\ p[2] \in extra THEN FileNode(3)
        ELSE IF p = DirE THEN (IF eKind = "file" THEN FileNode(5)
                               ELSE IF eKind = "dir" THEN DirNode ELSE NoNode)
        ELSE IF p = <<SegE, SegBT>> THEN (IF eKind = "dir" /\ eSub THEN DirNode ELSE NoNode)
        ELSE IF p = TempDir THEN (IF tmpKind = "dir" THEN DirNode ELSE NoNode)
        ELSE NoNode]

Layouts(o) ==
    {Layout(hasA, bIsDir, extra, eKind, eSub, tmpKind) :
        hasA \in BOOLEAN, bIsDir \in BOOLEAN,
        extra \in {{}} \cup {{n} : n \in ExtraNames},
        eKind \in (IF o = "rm" THEN {"none"} ELSE {"none", "file", "dir"}),
        eSub \in (IF o = "rm" THEN {FALSE} ELSE BOOLEAN),
        tmpKind \in (IF o = "rm" THEN {"dir", "none"} ELSE {"dir"})}

\* all the orders a directory's entries can be yielded in
Orderings(S) ==
    {s \in [1..Cardinality(S) -> S] : \A i, j \in 1..Cardinality(S) : i # j => s[i] # s[j]}

Init ==
    /\ op \in Ops
    /\ src \in Sources
    /\ tgt \in (IF op = "rm" THEN {TempDir} ELSE Targets)
    /\ fs \in Layouts(op)
    /\ locked \in {{}, {<<SegD, SegAT>>}}
    /\ pc = "start"
    /\ isf = FALSE
    /\ isd = FALSE
    /\ strategy = "none"
    /\ msrc = EmptyPath
    /\ re = <<>>
    /\ mdir = EmptyPath
    /\ listing = <<>>
    /\ seen = <<>>
    /\ calls = <<>>
    /\ result = Pending
    /\ fs0 = fs
    /\ enumErrs = 0
    /\ interfered = 0
    /\ appeared = 0
    /\ callNo = 1
    /\ prev = [result |-> Pending, fs |-> fs]

\* ----------------------------------------------------------------- actions
Finish(r) ==
    /\ result' = r
    /\ pc' = "done"

\* cp / mv / rm, first check: source.is_file()
ClassifyIsFile ==
    /\ pc = "start"
    /\ isf' = IsFile(fs, src)
    /\ pc' = "checked_file"
    /\ UNCHANGED <<op, src, tgt, fs, locked, isd, strategy, msrc, re, mdir,
                   listing, seen, calls, result, fs0, enumErrs, interfered,
                   appeared, callNo, prev>>

\* between the two checks another process replaces the source file by a
\* directory: the only way the (true, true) arm is taken
Interfere ==
    /\ pc = "checked_file"
    /\ interfered < MaxInterfere
    /\ IsFile(fs, src)
    /\ fs' = [fs EXCEPT ![src] = DirNode]
    /\ interfered' = interfered + 1
    /\ UNCHANGED <<op, src, tgt, locked, pc, isf, isd, strategy, msrc, re,
                   mdir, listing, seen, calls, result, fs0, enumErrs,
                   appeared, callNo, prev>>

\* cp / mv / rm, second check source.is_dir() and the match
ClassifyIsDir ==
    /\ pc = "checked_file"
    /\ isd' = IsDir(fs, src)
    /\ strategy' = Select(isf, isd')
    /\ IF strategy' = "unknown"
       THEN Finish(UnknownFormat(src))
       ELSE /\ pc' = strategy'
            /\ result' = result
    /\ msrc' = IF strategy' = "mask" THEN src ELSE msrc
    /\ UNCHANGED <<op, src, tgt, fs, locked, isf, re, mdir, listing, seen,
                   calls, fs0, enumErrs, interfered, appeared, callNo, prev>>

\* the (true, false) arm: do_on_file(source, target, closure)
FileStrategy ==
    /\ pc = "file"
    /\ \E trunc \in BOOLEAN :
          LET r == DoOnFile(op, fs, locked, src, tgt, trunc)
          IN /\ fs' = r.fs
             /\ calls' = calls \o r.calls
             /\ Finish(r.result)
    /\ UNCHANGED <<op, src, tgt, locked, isf, isd, strategy, msrc, re, mdir,
                   listing, seen, fs0, enumErrs, interfered, appeared, callNo,
                   prev>>

\* the mask do_on_dir hands to do_on_mask
DirMask(s) == Join(s, SegStar)

\* do_on_dir accepting any existing target
DirTargetOk_Exists(f, t) == Lookup(f, t).kind # "none"

\* do_on_dir's check of the target
DirTargetOk(f, t) == IsDir(f, t)

\* the (false, true) arm: do_on_dir up to its call of do_on_mask
DirStrategy ==
    /\ pc = "dir"
    /\ IF ~DirTargetOk(fs, tgt)
       THEN /\ Finish(InvalidTarget(tgt))
            /\ msrc' = msrc
       ELSE /\ msrc' = DirMask(src)
            /\ pc' = "mask"
            /\ result' = result
    /\ UNCHANGED <<op, src, tgt, fs, locked, isf, isd, strategy, re, mdir,
                   listing, seen, calls, fs0, enumErrs, interfered, appeared,
                   callNo, prev>>

\* tokio::fs::read_dir succeeds on an existing directory only (the empty
\* path names none)
CanReadDir(f, p) == IsDir(f, p)

\* what do_on_mask returns before its loop, Pending if it reaches the loop
MaskPrologue(f, s) ==
    IF ~HasFileName(s) THEN InvalidSource(s)
    ELSE IF ~ToStrOk(FileName(s)) THEN InvalidPath(s)
    ELSE IF ~ContainsStar(FileName(s)) THEN InvalidSource(s)
    ELSE IF ~HasParent(s) THEN NoParent(s)
    ELSE IF ~CanReadDir(f, Parent(s)) THEN ReadError(Parent(s))
    ELSE Pending

\* do_on_mask up to the loop: name, star, parent, regex, read_dir
MaskOpen ==
    /\ pc = "mask"
    /\ LET r == MaskPrologue(fs, msrc)
       IN IF r # Pending
          THEN /\ Finish(r)
               /\ UNCHANGED <<re, mdir, listing>>
          ELSE /\ re' = Compile(FileName(msrc))
               /\ mdir' = Parent(msrc)
               /\ listing' \in Orderings(Entries(fs, Parent(msrc)))
               /\ pc' = "walk"
               /\ result' = result
    /\ UNCHANGED <<op, src, tgt, fs, locked, isf, isd, strategy, msrc, seen,
                   calls, fs0, enumErrs, interfered, appeared, callNo, prev>>

\* next_entry() yields Ok(None): the loop ends, Ok(())
WalkEnd ==
    /\ pc = "walk"
    /\ listing = <<>>
    /\ Finish(Ok)
    /\ UNCHANGED <<op, src, tgt, fs, locked, isf, isd, strategy, msrc, re,
                   mdir, listing, seen, calls, fs0, enumErrs, interfered,
                   appeared, callNo, prev>>

\* next_entry() yields Err for an entry: `while let Ok(Some(entry))` does
\* not match, the loop ends, Ok(())
WalkEnumError ==
    /\ pc = "walk"
    /\ listing # <<>>
    /\ enumErrs < MaxEnumErrors
    /\ enumErrs' = enumErrs + 1
    /\ Finish(Ok)
    /\ UNCHANGED <<op, src, tgt, fs, locked, isf, isd, strategy, msrc, re,
                   mdir, listing, seen, calls, fs0, interfered, appeared,
                   callNo, prev>>

\* the entry is acted on: a file whose name the matcher accepts
Selected(f, r, entry) ==
    IsFile(f, entry) /\ ToStrOk(FileName(entry)) /\ IsMatch(r, FileName(entry))

\* do_on_mask expanding the target itself
MaskTarget_Joined(t, entry) == Join(t, FileName(entry))

\* the target do_on_mask passes to do_on_file for an entry
MaskTarget(t, entry) == t

\* next_entry() yields an entry: one turn of the loop
WalkEntry ==
    /\ pc = "walk"
    /\ listing # <<>>
    /\ LET entry == Head(listing)
       IN /\ seen' = Append(seen, entry)
          /\ IF ~IsFile(fs, entry)
             THEN /\ listing' = Tail(listing)
                  /\ UNCHANGED <<fs, calls, result, pc, appeared>>
             ELSE IF ~ToStrOk(FileName(entry))
             THEN /\ Finish(InvalidPath(entry))
                  /\ listing' = Tail(listing)
                  /\ UNCHANGED <<fs, calls, appeared>>
             ELSE IF ~IsMatch(re, FileName(entry))
             THEN /\ listing' = Tail(listing)
                  /\ UNCHANGED <<fs, calls, result, pc, appeared>>
             ELSE \E trunc \in BOOLEAN :
                    LET r == DoOnFile(op, fs, locked,
                                      Join(mdir, FileName(entry)),
                                      MaskTarget(tgt, entry), trunc)
                        made == r.calls[1].tgt
                        fresh == /\ r.result = Ok
                                 /\ ~IsFile(fs, made)
                                 /\ IsFile(r.fs, made)
                                 /\ Parent(made) = mdir
                    IN /\ fs' = r.fs
                       /\ calls' = calls \o r.calls
                       /\ IF r.result # Ok
                          THEN /\ Finish(r.result)
                               /\ listing' = Tail(listing)
                               /\ appeared' = appeared
                          ELSE /\ UNCHANGED <<result, pc>>
                               /\ \/ /\ listing' = Tail(listing)
                                     /\ appeared' = appeared
                                  \/ /\ fresh
                                     /\ appeared < MaxAppear
                                     /\ listing' = Append(Tail(listing), made)
                                     /\ appeared' = appeared + 1
    /\ UNCHANGED <<op, src, tgt, locked, isf, isd, strategy, msrc, re, mdir,
                   fs0, enumErrs, interfered, callNo, prev>>

\* the caller makes the same call again
Again ==
    /\ pc = "done"
    /\ callNo < MaxCalls
    /\ callNo' = callNo + 1
    /\ prev' = [result |-> result, fs |-> fs]
    /\ fs0' = fs
    /\ pc' = "start"
    /\ isf' = FALSE
    /\ isd' = FALSE
    /\ strategy' = "none"
    /\ msrc' = EmptyPath
    /\ re' = <<>>
    /\ mdir' = EmptyPath
    /\ listing' = <<>>
    /\ seen' = <<>>
    /\ calls' = <<>>
    /\ result' = Pending
    /\ UNCHANGED <<op, src, tgt, fs, locked, enumErrs, interfered, appeared>>

Next ==
    \/ ClassifyIsFile
    \/ Interfere
    \/ ClassifyIsDir
    \/ FileStrategy
    \/ DirStrategy
    \/ MaskOpen
    \/ WalkEnd
    \/ WalkEnumError
    \/ WalkEntry
    \/ Again

Spec == Init /\ [][Next]_vars


\* ------------------------------------------------- notions the claims use
\* whole-name wildcard match: "*" is zero or more arbitrary characters and
\* every other character stands for itself
RECURSIVE GlobMatch(_, _)
GlobMatch(m, n) ==
    IF m = <<>> THEN n = <<>>
    ELSE IF Head(m) = StarCh
         THEN GlobMatch(Tail(m), n) \/ (n # <<>> /\ GlobMatch(m, Tail(n)))
         ELSE n # <<>> /\ Head(n) = Head(m) /\ GlobMatch(Tail(m), Tail(n))

Range(q) == {q[i] : i \in DOMAIN q}

InWalk == strategy \in {"mask", "dir"} /\ pc \in {"walk", "done"} /\ re # <<>>

\* p lies strictly below directory q
Below(p, q) == Len(p) > Len(q) /\ SubSeq(p, 1, Len(q)) = q

\* the files of the listed directory the matcher accepts, as the call found them
MatchedAtStart == {e \in Entries(fs0, mdir) : Selected(fs0, re, e)}

\* ------------------------------------------------------------------ claims

\* C1: the two checks select exactly one arm, the same for cp, mv and rm:
\* both true ends the call with UnknownFormat(source) and no closure
\* invocation; file only enters do_on_file, directory only do_on_dir,
\* neither do_on_mask; no closure is invoked before the selection.
C1_Dispatch ==
    /\ pc \in {"start", "checked_file"} => (calls = <<>> /\ strategy = "none")
    /\ pc \notin {"start", "checked_file"} =>
          /\ (isf /\ isd) =>
                /\ strategy = "unknown"
                /\ pc = "done"
                /\ result = UnknownFormat(src)
                /\ calls = <<>>
          /\ (isf /\ ~isd) => (strategy = "file" /\ pc \in {"file", "done"})
          /\ (~isf /\ isd) => (strategy = "dir" /\ pc \in {"dir", "mask", "walk", "done"})
          /\ (~isf /\ ~isd) =>
                (strategy = "mask" /\ msrc = src /\ pc \in {"mask", "walk", "done"})

C1_Witness ==
    pc = "done" /\ isf /\ isd /\ strategy = "unknown" /\ result = UnknownFormat(src)

\* C2 as stated: every do_on_file invokes the closure once, on
\* (f, t/basename(f)) when t is a directory at that moment and on (f, t)
\* otherwise; after a successful cp(f, d) into a directory d, d/basename(f)
\* is a file with f's content and f is still there; after a successful
\* mv(f, d), d/basename(f) is a file and f no longer exists.
C2_Original ==
    [][/\ (calls' # calls /\ calls' # <<>>) =>
            LET c == calls'[Len(calls')]
            IN /\ calls' = Append(calls, c)
               /\ c.tgt = (IF IsDir(fs, tgt) THEN Join(tgt, FileName(c.src)) ELSE tgt)
       /\ (pc = "file" /\ pc' = "done") =>
            LET j == Join(tgt, FileName(src))
            IN /\ Len(calls') = 1
               /\ calls'[1].src = src
               /\ (op = "cp" /\ result' = Ok /\ IsDir(fs, tgt)) =>
                     /\ IsFile(fs', j)
                     /\ fs'[j].content = fs[src].content
                     /\ fs'[src] = fs[src]
               /\ (op = "mv" /\ result' = Ok /\ IsDir(fs, tgt)) =>
                     /\ IsFile(fs', j)
                     /\ ~IsFile(fs', src)
      ]_vars

\* C2 as amended: the same, but the content of d/basename(f) after cp and
\* the disappearance of f after mv hold when d/basename(f) is another path
\* than f; when f already is d/basename(f), cp leaves f a file and mv
\* changes nothing.
C2_TargetResolution ==
    [][/\ (calls' # calls /\ calls' # <<>>) =>
            LET c == calls'[Len(calls')]
            IN /\ calls' = Append(calls, c)
               /\ c.tgt = (IF IsDir(fs, tgt) THEN Join(tgt, FileName(c.src)) ELSE tgt)
       /\ (pc = "file" /\ pc' = "done") =>
            LET j == Join(tgt, FileName(src))
            IN /\ Len(calls') = 1
               /\ calls'[1].src = src
               /\ (op = "cp" /\ result' = Ok /\ IsDir(fs, tgt)) =>
                     /\ IsFile(fs', j)
                     /\ IsFile(fs', src)
                     /\ j # src => (/\ fs'[j].content = fs[src].content
                                    /\ fs'[src] = fs[src])
               /\ (op = "mv" /\ result' = Ok /\ IsDir(fs, tgt)) =>
                     /\ IsFile(fs', j)
                     /\ j # src => (/\ fs'[j].content = fs[src].content
                                    /\ fs'[src].kind = "none")
                     /\ j = src => fs' = fs
      ]_vars

C2_Witness ==
    /\ pc = "done" /\ strategy = "file" /\ op = "mv" /\ result = Ok
    /\ IsDir(fs0, tgt)
    /\ Len(calls) = 1
    /\ calls[1].tgt = Join(tgt, FileName(src))
    /\ calls[1].tgt # src
    /\ IsFile(fs, calls[1].tgt)
    /\ ~IsFile(fs, src)

\* C3: the matcher accepts a name iff the whole name equals the mask with
\* each "*" standing for zero or more characters and every other character
\* literal; the closure is never invoked on a file whose name is not such a
\* whole-name match.
C3_WholeNameMatch ==
    InWalk =>
        /\ \A n \in FileNames :
              ToStrOk(n) => (IsMatch(re, n) <=> GlobMatch(FileName(msrc), n))
        /\ \A i \in DOMAIN calls :
              GlobMatch(FileName(msrc), FileName(calls[i].src))

\* C4: a walk passes only direct file entries to the closure, never a
\* directory, and a successful rm(d) of a directory d removes every direct
\* file of d, keeps d and keeps every sub-directory and all below unchanged.
C4_DirectFilesOnly ==
    InWalk =>
        /\ \A i \in DOMAIN calls :
              /\ Parent(calls[i].src) = mdir
              /\ ~IsDir(fs0, calls[i].src)
        /\ (op = "rm" /\ strategy = "dir" /\ pc = "done" /\ result = Ok) =>
              /\ IsDir(fs, src)
              /\ \A e \in Entries(fs, src) : ~IsFile(fs, e)
              /\ \A p \in Universe :
                    (Below(p, src) /\ (IsDir(fs0, p) \/ Len(p) > Len(src) + 1))
                        => fs[p] = fs0[p]

\* C5: do_on_dir with a target that is not an existing directory returns
\* InvalidTarget(target), invokes no closure and changes nothing; with a
\* target that is a directory it is do_on_mask on source/* with the same
\* target.
C5_DirStrategy ==
    strategy = "dir" =>
        /\ pc = "dir" => (fs = fs0 /\ calls = <<>>)
        /\ ~IsDir(fs0, tgt) =>
              /\ pc \in {"dir", "done"}
              /\ pc = "done" =>
                    /\ result = InvalidTarget(tgt)
                    /\ calls = <<>>
                    /\ fs = fs0
        /\ (IsDir(fs0, tgt) /\ pc # "dir") =>
              /\ msrc = Join(src, SegStar)
              /\ result.kind # "InvalidTarget"
              /\ pc \in {"walk", "done"} =>
                    (mdir = src /\ re = Compile(SegStar))

C5_Witness ==
    /\ strategy = "dir" /\ pc = "done" /\ ~IsDir(fs0, tgt)
    /\ result = InvalidTarget(tgt)
    /\ Entries(fs0, src) # {}

\* C6: in a walk the first failing do_on_file ends the call with its error
\* (OperationFailed(entry, effective target) for cp and mv,
\* InvalidSource(entry) for rm), nothing is invoked after it, what was done
\* before is kept, and the call succeeds only if every matched entry was
\* processed successfully.
C6_FirstFailureAbort ==
    (InWalk /\ pc = "done") =>
        /\ \A i \in DOMAIN calls : i < Len(calls) => calls[i].ok
        /\ (calls # <<>> /\ ~calls[Len(calls)].ok) =>
              LET c == calls[Len(calls)]
              IN result = (IF op = "rm" THEN InvalidSource(c.src)
                           ELSE OperationFailed(c.src, c.tgt))
        /\ result = Ok =>
              \A e \in MatchedAtStart :
                  \E i \in DOMAIN calls : calls[i].src = e /\ calls[i].ok

\* C7: a mask whose directory can be listed and holds no matching file
\* gives success, no closure invocation and no change; hence after a
\* successful rm(mask) a second rm(mask) succeeds and changes nothing.
C7_EmptyMatchIdempotent ==
    /\ (InWalk /\ pc = "done" /\ MatchedAtStart = {}) =>
          (result = Ok /\ calls = <<>> /\ fs = fs0)
    /\ (op = "rm" /\ callNo = 2 /\ pc = "done" /\ strategy = "mask"
            /\ prev.result = Ok /\ fs0 = prev.fs) =>
          (result = Ok /\ fs = fs0)

\* C8: a bare pattern (no containing directory) makes do_on_mask return
\* NoParent(source) before any directory is listed and without invoking
\* the closure.
C8_BareMaskNoParent ==
    (pc = "done" /\ strategy = "mask" /\ Len(src) = 1 /\ ContainsStar(src[1])) =>
        (result = NoParent(src) /\ calls = <<>>)

\* C9: an entry that cannot be enumerated is skipped and the walk goes on:
\* a call that returned success has left no entry of the listing that is a
\* matching file unprocessed.
C9_SkipAndContinue ==
    (InWalk /\ pc = "done" /\ result = Ok) =>
        \A i \in DOMAIN listing : ~Selected(fs, re, listing[i])

\* C10 as stated: cp or mv of a mask with k >= 2 matching files and a
\* target that is no directory never returns InvalidTarget and invokes the
\* closure k times, each time on the target verbatim.
C10_Original ==
    (InWalk /\ pc = "done" /\ strategy = "mask" /\ op \in {"cp", "mv"}
        /\ ~IsDir(fs0, tgt) /\ Cardinality(MatchedAtStart) >= 2) =>
        /\ result.kind # "InvalidTarget"
        /\ Len(calls) = Cardinality(MatchedAtStart)
        /\ \A i \in DOMAIN calls : calls[i].tgt = tgt

\* C10 as amended: such a call never returns InvalidTarget, every closure
\* invocation it makes is on the target verbatim, at most one per entry the
\* listing yields and none after a failed one; when the listing is
\* exhausted and the call succeeds each of the k files was passed, and the
\* target then is one file.
C10_SameTarget ==
    (InWalk /\ strategy = "mask" /\ op \in {"cp", "mv"} /\ ~IsDir(fs0, tgt)) =>
        /\ ~IsDir(fs, tgt)
        /\ result.kind # "InvalidTarget"
        /\ \A i \in DOMAIN calls :
              /\ calls[i].tgt = tgt
              /\ calls[i].src \in Range(seen)
              /\ i < Len(calls) => calls[i].ok
        /\ Len(calls) <= Len(seen)
        /\ (pc = "done" /\ result = Ok /\ listing = <<>>) =>
              /\ \A e \in MatchedAtStart : \E i \in DOMAIN calls : calls[i].src = e
              /\ calls # <<>> => IsFile(fs, tgt)

C10_Witness ==
    /\ InWalk /\ pc = "done" /\ strategy = "mask" /\ op = "cp"
    /\ ~IsDir(fs0, tgt) /\ result = Ok
    /\ Cardinality(MatchedAtStart) >= 2
    /\ Len(calls) >= 2
    /\ \A i \in DOMAIN calls : calls[i].tgt = tgt /\ calls[i].ok
    /\ IsFile(fs, tgt)

====
